---- MODULE Spec2Model ----
(***************************************************************************)
(* Model of src/index.js: the ParasailNodeBot session (verifyUser,         *)
(* onboardNode, checkIn, getNodeStats, performRoutineTasks, start) and the *)
(* fleet runner main().                                                    *)
(*                                                                         *)
(* JavaScript runs a callback to its next await without interruption, so   *)
(* one action is one macrotask: an HTTP response (or the lack of one)      *)
(* being delivered, a backoff timer firing, the stagger timer of main()    *)
(* firing, or a setInterval tick.  Promise continuations (a callee         *)
(* returning or throwing to its awaiting caller) run in the same step.     *)
(* A task is always waiting on an HTTP request ("http"), sleeping in a     *)
(* backoff ("sleep"), or not running ("idle").                             *)
(***************************************************************************)
EXTENDS Integers, Sequences, FiniteSets, TLC

\* ---------------------------------------------------------------- constants
MAX_RETRIES == 5
RETRY_DELAY_MS == 2000
STAGGER_MS == 5000

\* error.response is absent: the request got no response
NoResponse == 0
\* bearerToken before the first successful verifyUser
Null == "null"

\* ---------------------------------------------------------------- bounds
\* private keys in pk.txt for the fleet specification
NumKeys == 3
\* timer-driven routines of one bot that may be in progress at once
MaxInflight == 1
\* the history counter refreshes saturates here (MaxCount reads "or more")
MaxCount == 2
\* characters in pk.txt and in proxy.txt
MaxFileLen == 3

\* token values of a /user/verify body: two, so that an overwrite shows
Tokens == {"tokenA", "tokenB"}
\* status codes the server may answer with, and no answer at all
Statuses == {NoResponse, 200, 401, 403, 500}
Keys == {"valid", "invalid"}
Ops == {"onboardNode", "checkIn", "getNodeStats"}
Slots == 0..MaxInflight

\* the characters of a file: "x" is any character that is neither white space
\* nor '#', " " is any white space other than the newline
Chars == {"x", " ", "#", "\n"}

VARIABLES
  pkFile,        \* ./pk.txt: [state, text]
  proxyFile,     \* ./proxy.txt: [state, text]
  proxies,       \* main(): the lines read from proxy.txt
  botProxy,      \* bot -> this.proxy, a line of proxy.txt or null
  warnings,      \* the indices i of the "No proxy available" warnings, in order
  privateKeys,   \* main(): the keys read from pk.txt, one bot each
  bearerToken,   \* bot -> this.bearerToken
  tasks,         \* bot -> slot -> task; slot 0 is start(), the others are ticks
  timer,         \* bot -> the setInterval of start() is installed
  phase,         \* bot -> how far start() got (history)
  mainPc,        \* main(): "stagger", "await" or "done"
  cur,           \* main(): the loop index i (1-based)
  ev             \* what the last step did (history)

vars == <<pkFile, proxyFile, proxies, botProxy, warnings,
          privateKeys, bearerToken, tasks, timer, phase, mainPc, cur, ev>>

Bots == DOMAIN privateKeys

\* ---------------------------------------------------------------- helpers
RECURSIVE Pow2(_)
Pow2(n) == IF n = 0 THEN 1 ELSE 2 * Pow2(n - 1)

BackoffDelayLinear(retryCount) == RETRY_DELAY_MS * (retryCount + 1)
BackoffDelay(retryCount) == RETRY_DELAY_MS * Pow2(retryCount)

CanRetryInclusive(retryCount) == retryCount <= MAX_RETRIES
CanRetry(retryCount) == retryCount < MAX_RETRIES

IsSuccess(status) == status # NoResponse /\ status >= 200 /\ status < 300

IsUnauthorized(status) == status # NoResponse /\ status = 401

IsRetryableAny(status) == TRUE
IsRetryableNetworkOnly(status) == status = NoResponse
IsRetryable(status) == status = NoResponse \/ (status # NoResponse /\ status >= 500)

ValidKey(key) == key = "valid"

\* the failure classes of the requirements, for the history fields and the
\* claims: Retryable is no response or a 5xx, Unauthorized is 401
Success(status) == status \in 200..299
Unauthorized(status) == status = 401
RetryableFailure(status) == status = NoResponse \/ status \in 500..599

Bump(n) == IF n < MaxCount THEN n + 1 ELSE MaxCount

\* a task that is not running
Idle ==
  [step |-> "none", op |-> "none", retryCount |-> 0, pc |-> "idle", delay |-> 0,
   attempts |-> 0, refreshes |-> 0, allRetryable |-> TRUE,
   returned |-> {}]

\* the operation performRoutineTasks calls at a step
StepOp(step) ==
  CASE step = "onboard" -> "onboardNode"
    [] step = "checkIn" -> "checkIn"
    [] step = "stats" -> "getNodeStats"
    [] OTHER -> "verifyUser"

\* what one function frame did: the task after it, how the frame ended
\* ("pending", "return", "throw"), the branch taken, the request it issued
Outcome(th, out, act, sent) == [th |-> th, out |-> out, act |-> act, sent |-> sent]

\* axios.get / axios.post is issued: the task waits for the response
HttpSend(th) ==
  Outcome([th EXCEPT !.pc = "http", !.delay = 0, !.attempts = @ + 1],
          "pending", "send", th.op)

\* the backoff branch: setTimeout(resolve, delay), then the same function again
Backoff(th) ==
  Outcome([th EXCEPT !.pc = "sleep", !.delay = BackoffDelay(th.retryCount)],
          "pending", "retry", "none")

\* the catch block of verifyUser: every failure is retried while retryCount < 5
VerifyCatchNoRetry(th) == Outcome(th, "throw", "throw", "none")
VerifyCatch(th) ==
  IF CanRetry(th.retryCount) THEN Backoff(th) ELSE Outcome(th, "throw", "throw", "none")

\* verifyUser(retryCount) up to its first suspension: sign, then post
VerifyEnter(key, th, retryCount) ==
  LET t1 == [th EXCEPT !.op = "verifyUser", !.retryCount = retryCount] IN
  IF ValidKey(key) THEN HttpSend(t1)
  ELSE VerifyCatch([t1 EXCEPT !.allRetryable = FALSE])

\* onboardNode / checkIn / getNodeStats (retryCount) up to the request
OpEnter(th, op, retryCount) ==
  HttpSend([th EXCEPT !.op = op, !.retryCount = retryCount])

\* a call from performRoutineTasks: a new logical call of op
Call(th, op) ==
  OpEnter([th EXCEPT !.attempts = 0, !.allRetryable = TRUE, !.refreshes = 0], op, 0)

\* the 401 branch: await this.verifyUser(), a new call with retryCount = 0
Refresh(key, th) ==
  LET r == VerifyEnter(key, [th EXCEPT !.attempts = 0, !.allRetryable = TRUE,
                                       !.refreshes = Bump(@)], 0)
  IN  [r EXCEPT !.act = IF r.out = "throw" THEN "throw" ELSE "refresh"]

\* the 401 branch after verifyUser returned: return this.op(), retryCount = 0
ReinvokeAsRetry(th) ==
  OpEnter([th EXCEPT !.attempts = 0, !.allRetryable = TRUE], StepOp(th.step), 1)
Reinvoke(th) ==
  OpEnter([th EXCEPT !.attempts = 0, !.allRetryable = TRUE], StepOp(th.step), 0)

\* the catch block of onboardNode / checkIn / getNodeStats
OpCatch(key, th, status) ==
  IF IsUnauthorized(status) THEN Refresh(key, th)
  ELSE IF IsRetryable(status) /\ CanRetry(th.retryCount) THEN Backoff(th)
  ELSE Outcome(th, "throw", "throw", "none")

\* the response (or no response) to the request of the task's current frame
OnResponseRefreshAnywhere(key, th, status) ==
  LET t1 == [th EXCEPT !.allRetryable = @ /\ (Success(status) \/ RetryableFailure(status))]
  IN  IF IsSuccess(status) THEN Outcome(t1, "return", "return", "none")
      ELSE OpCatch(key, t1, status)
OnResponse(key, th, status) ==
  LET t1 == [th EXCEPT !.allRetryable = @ /\ (Success(status) \/ RetryableFailure(status))]
  IN  IF IsSuccess(status) THEN Outcome(t1, "return", "return", "none")
      ELSE IF th.op = "verifyUser" THEN VerifyCatch(t1)
      ELSE OpCatch(key, t1, status)

\* the backoff timer fires: return this.f(retryCount + 1)
OnWake(key, th) ==
  IF th.op = "verifyUser" THEN VerifyEnter(key, th, th.retryCount + 1)
  ELSE OpEnter(th, th.op, th.retryCount + 1)

\* the caller's continuation when the task's current frame returned
NextStep(step) ==
  CASE step = "onboard" -> "checkIn"
    [] step = "checkIn" -> "stats"
    [] OTHER -> "done"

AfterReturn(th) ==
  IF th.op = "verifyUser"
  THEN IF th.step = "verify"
       THEN \* start(): performRoutineTasks() begins with onboardNode()
            Call([th EXCEPT !.step = "onboard"], "onboardNode")
       ELSE Reinvoke(th)
  ELSE LET t1 == [th EXCEPT !.returned = @ \cup {th.op}] IN
       IF NextStep(th.step) = "done"
       THEN Outcome(t1, "return", "return", "none")
       ELSE Call([t1 EXCEPT !.step = NextStep(th.step)], StepOp(NextStep(th.step)))

\* how a step leaves the task: fin is "none" while the task goes on, else how
\* start() or performRoutineTasks ended; failed names the step that threw
Going(r) == [th |-> r.th, fin |-> "none", sent |-> r.sent, failed |-> "none"]
Finished(fin, failed) == [th |-> Idle, fin |-> fin, sent |-> "none", failed |-> failed]

\* an exception reaches the catch of start() (from verifyUser) or the catch of
\* performRoutineTasks (from onboardNode, checkIn, getNodeStats): the rest of
\* the try block is skipped
OnThrowRunAnyway(th) ==
  IF th.step = "verify" THEN Going(Call([th EXCEPT !.step = "onboard"], "onboardNode"))
  ELSE Finished("routineFailed", th.step)
OnThrowNextStep(th) ==
  IF th.step = "verify" THEN Finished("authFailed", th.step)
  ELSE IF NextStep(th.step) = "done" THEN Finished("routineFailed", th.step)
  ELSE Going(Call([th EXCEPT !.step = NextStep(th.step)], StepOp(NextStep(th.step))))
OnThrow(th) ==
  IF th.step = "verify" THEN Finished("authFailed", th.step)
  ELSE Finished("routineFailed", th.step)

\* logNodeStats(stats) reads stats.data.*: it throws inside the try block of
\* performRoutineTasks when the body has no data
OnRoutineEnd(statsOk) ==
  IF statsOk THEN Finished("routineOk", "none") ELSE Finished("routineFailed", "log")

Settle(r, statsOk) ==
  LET r2 == IF r.out = "return" THEN AfterReturn(r.th) ELSE r IN
  CASE r2.out = "pending" -> Going(r2)
    [] r2.out = "return" -> OnRoutineEnd(statsOk)
    [] OTHER -> OnThrow(r2.th)

\* this.bearerToken = response.data.token, in verifyUser only
TokenAfterClearOnFailure(old, op, status, tok) ==
  IF op = "verifyUser" THEN (IF IsSuccess(status) THEN tok ELSE Null) ELSE old
TokenAfter(old, op, status, tok) ==
  IF op = "verifyUser" /\ IsSuccess(status) THEN tok ELSE old

\* start() reaches setInterval when performRoutineTasks has returned, which
\* it does whether the routine failed or not; the interval is never cleared
InstallsTimer(fin) == fin \in {"routineOk", "routineFailed"}

TimerAfterStopOnFailure(installed, slot, fin) ==
  IF slot > 0 /\ fin = "routineFailed" THEN FALSE
  ELSE installed \/ (slot = 0 /\ InstallsTimer(fin))
TimerAfter(installed, slot, fin) == installed \/ (slot = 0 /\ InstallsTimer(fin))

\* how far start() of a bot has got
PhaseAfter(old, slot, kind, op, status, fin) ==
  IF slot # 0 THEN old
  ELSE IF fin = "authFailed" THEN "failed"
  ELSE IF fin # "none" THEN "running"
  ELSE IF kind = "start" THEN "starting"
  ELSE IF op = "verifyUser" /\ old = "starting" /\ kind = "response" /\ IsSuccess(status)
       THEN "authenticated"
  ELSE old

\* main(): the stagger before bots[i].start() is i * 5000 ms, i from 0
StaggerDelay(i) == (i - 1) * STAGGER_MS

\* the start loop of main() after a step: await bots[i].start() holds the
\* loop until start() of bot i has ended, then the next iteration begins
MainAfterNoAwait(pc, i, n, kind, startEnded) ==
  IF kind = "start"
  THEN IF i < n THEN [pc |-> "stagger", cur |-> i + 1] ELSE [pc |-> "done", cur |-> i]
  ELSE [pc |-> pc, cur |-> i]
MainAfter(pc, i, n, kind, startEnded) ==
  IF startEnded
  THEN IF i < n THEN [pc |-> "stagger", cur |-> i + 1] ELSE [pc |-> "done", cur |-> i]
  ELSE [pc |-> IF kind = "start" THEN "await" ELSE pc, cur |-> i]

\* ---------------------------------------------------------------- steps
\* One macrotask of task (b, slot): th is the task before it, r what its
\* current frame did; the continuations run in the same step.
Step(b, slot, kind, status, th, r, tok, statsOk) ==
  LET s == Settle(r, statsOk)
      token == TokenAfter(bearerToken[b], th.op, IF kind = "response" THEN status ELSE NoResponse, tok)
      startEnded == slot = 0 /\ s.fin # "none"
  IN  /\ tasks' = [tasks EXCEPT ![b][slot] = s.th]
      /\ bearerToken' = [bearerToken EXCEPT ![b] = token]
      /\ timer' = [timer EXCEPT ![b] = TimerAfter(@, slot, s.fin)]
      /\ phase' = [phase EXCEPT ![b] = PhaseAfter(@, slot, kind, th.op, status, s.fin)]
      /\ cur' = MainAfter(mainPc, cur, Len(privateKeys), kind, startEnded).cur
      /\ mainPc' = MainAfter(mainPc, cur, Len(privateKeys), kind, startEnded).pc
      /\ ev' = [bot |-> b, slot |-> slot, kind |-> kind, status |-> status,
                op |-> th.op, retryCount |-> th.retryCount, attempts |-> th.attempts,
                refreshes |-> th.refreshes,
                allRetryable |-> IF r.act = "refresh" THEN th.allRetryable ELSE r.th.allRetryable,
                act |-> r.act,
                delay |-> IF kind = "start" THEN StaggerDelay(b)
                          ELSE IF r.act = "retry" THEN r.th.delay ELSE 0,
                sent |-> s.sent,
                auth |-> IF s.sent \in Ops THEN token ELSE Null,
                fin |-> s.fin, failed |-> s.failed]
      /\ UNCHANGED <<pkFile, proxyFile, proxies, botProxy, warnings, privateKeys>>

\* main(): the stagger timer of iteration cur fires and bots[cur].start() runs
\* to the request of verifyUser()
MainWake ==
  /\ mainPc = "stagger"
  /\ LET th == [Idle EXCEPT !.step = "verify"] IN
     Step(cur, 0, "start", NoResponse, th, VerifyEnter(privateKeys[cur], th, 0),
          bearerToken[cur], TRUE)

\* the parts of a response body the code reads: the token of a /user/verify
\* body, and whether a node_stats body has its data member
TokenChoices(op, status, old) ==
  IF op = "verifyUser" /\ IsSuccess(status) THEN Tokens ELSE {old}
BodyChoices(op, status) ==
  IF op = "getNodeStats" /\ IsSuccess(status) THEN BOOLEAN ELSE {TRUE}

\* the request of task (b, slot) is answered with a status, or fails with no
\* response; tok is the token of a /user/verify body, statsOk whether a
\* node_stats body has its data member
Respond(b, slot) ==
  /\ tasks[b][slot].pc = "http"
  /\ \E status \in Statuses :
       \E tok \in TokenChoices(tasks[b][slot].op, status, bearerToken[b]),
          statsOk \in BodyChoices(tasks[b][slot].op, status) :
         Step(b, slot, "response", status, tasks[b][slot],
              OnResponse(privateKeys[b], tasks[b][slot], status), tok, statsOk)

\* the backoff timer of task (b, slot) fires
Wake(b, slot) ==
  /\ tasks[b][slot].pc = "sleep"
  /\ Step(b, slot, "wake", NoResponse, tasks[b][slot],
          OnWake(privateKeys[b], tasks[b][slot]), bearerToken[b], TRUE)

\* the setInterval callback of bot b fires: performRoutineTasks() runs to the
\* request of onboardNode(); bounded to MaxInflight routines in progress
FreeSlots(b) == {t \in 1..MaxInflight : tasks[b][t].pc = "idle"}
LowestFree(b) == CHOOSE t \in FreeSlots(b) : \A u \in FreeSlots(b) : t <= u
Tick(b) ==
  /\ timer[b]
  /\ FreeSlots(b) # {}
  /\ LET th == [Idle EXCEPT !.step = "onboard"] IN
     Step(b, LowestFree(b), "tick", NoResponse, th, Call(th, "onboardNode"),
          bearerToken[b], TRUE)

\* ---------------------------------------------------------------- main()
\* content.split('\n'): the pieces between the newlines, empty ones included
RECURSIVE SplitFrom(_, _, _)
SplitFrom(text, i, line) ==
  IF i > Len(text) THEN <<line>>
  ELSE IF text[i] = "\n" THEN <<line>> \o SplitFrom(text, i + 1, <<>>)
  ELSE SplitFrom(text, i + 1, Append(line, text[i]))
Split(text) == SplitFrom(text, 1, <<>>)

\* line.trim(): the white space at both ends removed
RECURSIVE TrimStart(_)
TrimStart(line) ==
  IF line # <<>> /\ Head(line) = " " THEN TrimStart(Tail(line)) ELSE line
RECURSIVE TrimEnd(_)
TrimEnd(line) ==
  IF line # <<>> /\ line[Len(line)] = " " THEN TrimEnd(SubSeq(line, 1, Len(line) - 1))
  ELSE line
TrimStartOnly(line) == TrimStart(line)
Trim(line) == TrimEnd(TrimStart(line))

\* line && !line.startsWith('#')
KeepLine(line) == line # <<>> /\ Head(line) # "#"

\* readFileLines(filePath): [] for a missing file and for a read error
readFileLines(file) ==
  IF file.state # "ok" THEN <<>>
  ELSE LET pieces == Split(file.text) IN
       SelectSeq([i \in 1..Len(pieces) |-> Trim(pieces[i])], KeepLine)

\* the files main() may find
Texts == UNION {[1..n -> Chars] : n \in 0..MaxFileLen}
Files == {[state |-> "ok", text |-> t] : t \in Texts}
           \cup {[state |-> st, text |-> <<>>] : st \in {"missing", "unreadable"}}

\* whether ethers.Wallet takes the line as a private key
KeyOf(line) == IF \A i \in 1..Len(line) : line[i] = "x" THEN "valid" ELSE "invalid"

\* const proxy = i < proxies.length ? proxies[i] : null, i from 0
ProxyForWrap(i, lines) ==
  IF lines # <<>> THEN lines[((i - 1) % Len(lines)) + 1] ELSE Null
ProxyFor(i, lines) == IF i - 1 < Len(lines) THEN lines[i] ELSE Null

\* !proxy
NoProxy(proxy) == proxy = Null \/ proxy = <<>>

\* main() from its first line to the stagger of the first bot: the two
\* files are read, the process exits without a key, the bots are constructed
Begin(keyLines, proxyLines) ==
  LET n == Len(keyLines)
      unproxied == {i \in 1..n : NoProxy(ProxyFor(i, proxyLines))}
  IN  /\ proxies' = proxyLines
      /\ privateKeys' = [i \in 1..n |-> KeyOf(keyLines[i])]
      /\ mainPc' = IF n = 0 THEN "exited" ELSE "stagger"
      /\ botProxy' = IF n = 0 THEN <<>> ELSE [i \in 1..n |-> ProxyFor(i, proxyLines)]
      /\ warnings' = IF n = 0 THEN <<>>
                     ELSE SelectSeq([i \in 1..n |-> i - 1], LAMBDA k : k + 1 \in unproxied)
      /\ bearerToken' = [b \in 1..n |-> Null]
      /\ tasks' = [b \in 1..n |-> [t \in Slots |-> Idle]]
      /\ timer' = [b \in 1..n |-> FALSE]
      /\ phase' = [b \in 1..n |-> "created"]
      /\ cur' = 1
      /\ ev' = [ev EXCEPT !.kind = "main"]
      /\ UNCHANGED <<pkFile, proxyFile>>

MainBegin ==
  /\ mainPc = "begin"
  /\ Begin(readFileLines(pkFile), readFileLines(proxyFile))

NoEvent ==
  [bot |-> 0, slot |-> 0, kind |-> "init", status |-> NoResponse,
   op |-> "none", retryCount |-> 0, attempts |-> 0, refreshes |-> 0,
   allRetryable |-> TRUE, act |-> "none", delay |-> 0, sent |-> "none",
   auth |-> Null, fin |-> "none", failed |-> "none"]

\* main() is entered: the two files are whatever the operator left
MainInit ==
  /\ pkFile \in Files
  /\ proxyFile \in Files
  /\ proxies = <<>>
  /\ botProxy = <<>>
  /\ warnings = <<>>
  /\ privateKeys = <<>>
  /\ bearerToken = <<>>
  /\ tasks = <<>>
  /\ timer = <<>>
  /\ phase = <<>>
  /\ mainPc = "begin"
  /\ cur = 1
  /\ ev = NoEvent

MainNext == MainBegin

MainSpec == MainInit /\ [][MainNext]_vars

\* a pk.txt of one key per line, "x" a key ethers takes, "x#" one it refuses
RECURSIVE KeyFileText(_)
KeyFileText(keys) ==
  IF keys = <<>> THEN <<>>
  ELSE (IF Head(keys) = "valid" THEN <<"x">> ELSE <<"x", "#">>)
         \o (IF Len(keys) > 1 THEN <<"\n">> ELSE <<>>) \o KeyFileText(Tail(keys))

\* main() after the bots are constructed, about to start the first one: n
\* keys in pk.txt, no proxy.txt
InitWith(n) ==
  /\ privateKeys \in [1..n -> Keys]
  /\ pkFile = [state |-> "ok", text |-> KeyFileText(privateKeys)]
  /\ proxyFile = [state |-> "missing", text |-> <<>>]
  /\ proxies = <<>>
  /\ botProxy = [b \in 1..n |-> Null]
  /\ warnings = [b \in 1..n |-> b - 1]
  /\ bearerToken = [b \in 1..n |-> Null]
  /\ tasks = [b \in 1..n |-> [t \in Slots |-> Idle]]
  /\ timer = [b \in 1..n |-> FALSE]
  /\ phase = [b \in 1..n |-> "created"]
  /\ mainPc = "stagger"
  /\ cur = 1
  /\ ev = [NoEvent EXCEPT !.kind = "main"]

\* one bot: pk.txt holds a single key
Init == InitWith(1)

Next ==
  \/ MainWake
  \/ \E b \in Bots, slot \in Slots : Respond(b, slot)
  \/ \E b \in Bots, slot \in Slots : Wake(b, slot)
  \/ \E b \in Bots : Tick(b)

Spec == Init /\ [][Next]_vars

\* the fleet: pk.txt holds NumKeys keys.  The start loop of main(): the
\* stagger timers, start() of each bot in turn and its requests and backoffs.
\* The interval callbacks of the bots already started are the steps of Spec;
\* they share no state with the loop or with another bot.
FleetInit == InitWith(NumKeys)

FleetNext ==
  \/ MainWake
  \/ \E b \in Bots : Respond(b, 0)
  \/ \E b \in Bots : Wake(b, 0)

FleetSpec == FleetInit /\ [][FleetNext]_vars

\* every timer that is set fires, and every request ends, with a response or
\* with an error (the transport gives up on a dead connection)
FairFleetSpec ==
  /\ FleetSpec
  /\ WF_vars(MainWake)
  /\ \A b \in 1..NumKeys : WF_vars(Respond(b, 0)) /\ WF_vars(Wake(b, 0))

\* ---------------------------------------------------------------- claims
Running(th) == th.pc # "idle"
LastTask == tasks[ev.bot][ev.slot]
\* the last step handled a response to an HTTP attempt of op(s)
Answered(ops) == ev.kind = "response" /\ ev.op \in ops
AllOps == Ops \cup {"verifyUser"}
ClientError(status) == status >= 400 /\ status < 500 /\ status # 401

\* C1 as stated: a call whose HTTP attempts all fail with a retryable failure
\* (no response, 5xx) throws after 5 HTTP attempts and never issues a 6th.
C1_ThrowsAfterFiveAttempts ==
  /\ \A b \in Bots, slot \in Slots :
       tasks[b][slot].pc = "http" /\ tasks[b][slot].allRetryable
         => tasks[b][slot].attempts <= MAX_RETRIES
  /\ Answered(AllOps) /\ RetryableFailure(ev.status) /\ ev.allRetryable /\ ev.act = "throw"
       => ev.attempts = MAX_RETRIES

\* C1 amended: such a call throws after 6 HTTP attempts (the first and
\* MAX_RETRIES retries): the 6th retryable failure throws, no earlier one
\* does, and a 7th attempt is never issued.
C1_ThrowsAfterSixAttempts ==
  /\ \A b \in Bots, slot \in Slots :
       tasks[b][slot].pc = "http" /\ tasks[b][slot].allRetryable
         => tasks[b][slot].attempts <= MAX_RETRIES + 1
  /\ Answered(AllOps) /\ RetryableFailure(ev.status) /\ ev.allRetryable
       => /\ ev.act \in {"retry", "throw"}
          /\ ev.act = "throw" <=> ev.attempts = MAX_RETRIES + 1
          /\ ev.act = "throw" => ev.sent = "none" /\ ~Running(LastTask)

C1_Witness ==
  /\ Answered({"checkIn"}) /\ RetryableFailure(ev.status) /\ ev.allRetryable
  /\ ev.act = "throw" /\ ev.attempts = MAX_RETRIES + 1

\* C2 as stated: within one call of onboardNode, checkIn or getNodeStats a
\* second 401 (after a successful re-authentication) throws to the caller,
\* and no second re-authentication is started.
C2_SecondUnauthorizedThrows ==
  /\ \A b \in Bots, slot \in Slots : tasks[b][slot].refreshes <= 1
  /\ Answered(Ops) /\ Unauthorized(ev.status) /\ ev.refreshes >= 1
       => ev.act = "throw"

\* C3: a 401 on onboardNode, checkIn or getNodeStats starts exactly one
\* verifyUser() call (retryCount 0); when that call returns, the operation is
\* invoked again once with retryCount 0; a success of that attempt returns.
C3_RefreshThenOneReinvocation ==
  /\ Answered(Ops) /\ Unauthorized(ev.status)
       => /\ ev.act = "refresh"
          /\ LastTask.op = "verifyUser" /\ LastTask.retryCount = 0
          /\ LastTask.refreshes = Bump(ev.refreshes)
          /\ LastTask.step \in {"onboard", "checkIn", "stats"}
          /\ ValidKey(privateKeys[ev.bot]) => ev.sent = "verifyUser" /\ LastTask.attempts = 1
  /\ Answered({"verifyUser"}) /\ Success(ev.status) /\ ev.refreshes >= 1
       => /\ ev.act = "return"
          /\ ev.sent = StepOp(LastTask.step) /\ ev.sent \in Ops
          /\ LastTask.op = ev.sent /\ LastTask.pc = "http"
          /\ LastTask.retryCount = 0 /\ LastTask.attempts = 1
          /\ LastTask.refreshes = ev.refreshes
  /\ Answered(Ops) /\ Success(ev.status) /\ ev.refreshes = 1 /\ ev.attempts = 1
       => ev.act = "return" /\ ev.retryCount = 0 /\ ev.failed \in {"none", "log"}

C3_Witness ==
  /\ Answered({"checkIn"}) /\ Success(ev.status)
  /\ ev.refreshes = 1 /\ ev.attempts = 1 /\ ev.act = "return"

\* C4: the k-th retryable failure in a row, k < 5, is followed by a retry;
\* a success after n such failures returns, at HTTP attempt n + 1.
C4_SuccessAfterRetryableFailures ==
  /\ Answered(AllOps) /\ RetryableFailure(ev.status) /\ ev.allRetryable
        /\ ev.attempts < MAX_RETRIES
       => /\ ev.act = "retry" /\ ev.fin = "none"
          /\ LastTask.pc = "sleep" /\ LastTask.op = ev.op
          /\ LastTask.retryCount = ev.retryCount
  /\ Answered(AllOps) /\ Success(ev.status) /\ ev.allRetryable
       => /\ ev.act = "return" /\ ev.failed \in {"none", "log"}
          /\ ev.attempts = ev.retryCount + 1
  /\ ev.kind = "wake" /\ ev.sent # "none"
       => /\ ev.sent = ev.op /\ LastTask.retryCount = ev.retryCount + 1
          /\ LastTask.attempts = ev.attempts + 1

C4_Witness ==
  /\ Answered({"onboardNode"}) /\ Success(ev.status) /\ ev.allRetryable
  /\ ev.retryCount = MAX_RETRIES - 1 /\ ev.attempts = MAX_RETRIES /\ ev.act = "return"

\* C5: a 4xx other than 401 on onboardNode, checkIn or getNodeStats throws at
\* once: no backoff, no further request, no re-authentication, at any
\* retryCount.
C5_ClientErrorThrowsAtOnce ==
  Answered(Ops) /\ ClientError(ev.status)
    => /\ ev.act = "throw" /\ ev.delay = 0 /\ ev.sent = "none"
       /\ ev.fin = "routineFailed" /\ ~Running(LastTask)
       /\ ev.auth = Null

C5_Witness ==
  /\ Answered({"getNodeStats"}) /\ ClientError(ev.status)
  /\ ev.retryCount > 0 /\ ev.act = "throw"

StartupSteps == {"verify", "onboard", "checkIn", "stats"}
\* start() of the bot of the last step ended there, with a step having thrown
StartupFailedAt(steps) == ev.slot = 0 /\ ev.bot \in Bots /\ ev.failed \in steps

\* C6 as stated: when any step of start() (authentication, onboarding, first
\* check-in, first stats fetch) fails terminally, the session is Failed: no
\* timer is installed and nothing of the session is left running.
C6_AnyStartupFailureHalts ==
  StartupFailedAt(StartupSteps)
    => /\ phase[ev.bot] = "failed" /\ ~timer[ev.bot]
       /\ \A slot \in Slots : ~Running(tasks[ev.bot][slot])

\* the last step ended a timer-driven routine with a failure
C7_TickFailed == ev.slot > 0 /\ ev.fin = "routineFailed"

\* C7: an installed timer stays installed; a routine that fails in a tick
\* ends inside that tick, the timer can fire again, and every tick starts the
\* routine at its first step, onboardNode.
C7_FailedTickKeepsTimer ==
  /\ [](C7_TickFailed
          => timer[ev.bot] /\ ~Running(LastTask) /\ ENABLED Tick(ev.bot))
  /\ [](ev.kind = "tick"
          => /\ ev.sent = "onboardNode" /\ LastTask.step = "onboard"
             /\ LastTask.retryCount = 0 /\ LastTask.returned = {})
  /\ [][\A b \in Bots : timer[b] => timer'[b]]_vars

C7_Witness == C7_TickFailed /\ ev.failed = "checkIn" /\ timer[ev.bot]

\* C8 as stated: in the fleet, once start() of bot i has ended in a failure,
\* start() of every later bot j is eventually invoked.
C8_LaterBotsStart ==
  \A i \in 1..NumKeys, j \in 1..NumKeys :
    i < j => ((ev.bot = i /\ ev.slot = 0 /\ ev.failed \in StartupSteps)
                ~> phase[j] # "created")

\* C9: a request of onboardNode, checkIn or getNodeStats is sent only after
\* a verifyUser of the bot has succeeded, with a token that is not null.
C9_TokenSetBeforeUse ==
  /\ ev.sent \in Ops
       => ev.auth # Null /\ ev.auth \in Tokens
          /\ phase[ev.bot] \in {"authenticated", "running"}
  /\ \A b \in Bots, slot \in Slots :
       Running(tasks[b][slot]) /\ tasks[b][slot].step # "verify"
         => bearerToken[b] # Null /\ phase[b] \in {"authenticated", "running"}

C9_Witness ==
  ev.sent = "onboardNode" /\ ev.slot = 0 /\ ev.auth \in Tokens /\ Answered({"verifyUser"})

\* C10: in every cycle (the routine of start() and every tick) the check-in
\* request is sent only after onboardNode of the cycle has returned, and the
\* stats request only after checkIn of the cycle has returned.
C10_CycleOrder ==
  \A b \in Bots, slot \in Slots :
    LET th == tasks[b][slot] IN
    /\ th.step = "onboard" => th.returned = {}
    /\ th.step = "checkIn" => th.returned = {"onboardNode"}
    /\ th.step = "stats" => th.returned = {"onboardNode", "checkIn"}
    /\ Running(th) /\ th.op \in Ops => th.op = StepOp(th.step)

C10_Witness ==
  \E b \in Bots, slot \in 1..MaxInflight :
    /\ tasks[b][slot].op = "getNodeStats" /\ tasks[b][slot].pc = "http"
    /\ tasks[b][slot].returned = {"onboardNode", "checkIn"}

\* C11: an onboard request that is answered with a client error is not an
\* error of the cycle: the check-in request is sent next.
C11_OnboardErrorProceeds ==
  (Answered({"onboardNode"}) /\ ClientError(ev.status)) => ev.sent = "checkIn"

\* ---------------------------------------------------------------- C12, C13
Constructed == mainPc = "stagger" /\ ev.kind = "main"

\* how many warnings name the index i
WarningsFor(i) == Cardinality({k \in DOMAIN warnings : warnings[k] = i})

\* C12: with N keys and P proxy lines, the bot of index i (from 0) is
\* constructed with proxy line i when i < P, without a warning, and with no
\* proxy and exactly one warning that names i when i >= P; no proxy line goes
\* to two bots (line j goes to bot j alone, at most P bots have a proxy).
C12_ProxyByPosition ==
  Constructed =>
    LET N == Len(privateKeys)
        P == Len(proxies)
    IN  /\ DOMAIN botProxy = 1..N
        /\ \A i \in 0..(N - 1) :
             IF i < P
             THEN botProxy[i + 1] = proxies[i + 1] /\ WarningsFor(i) = 0
             ELSE botProxy[i + 1] = Null /\ WarningsFor(i) = 1
        /\ Cardinality({b \in 1..N : botProxy[b] # Null}) <= P
        /\ Len(warnings) = Cardinality({b \in 1..N : botProxy[b] = Null})

\* two keys and one proxy line: the second bot runs without a proxy
C12_Witness ==
  /\ Constructed
  /\ Len(privateKeys) = 2
  /\ Len(proxies) = 1
  /\ botProxy[1] = proxies[1]
  /\ botProxy[2] = Null
  /\ warnings = <<1>>

\* the lines of a text, by where they start
LineStarts(text) == {1} \cup {i + 1 : i \in {j \in 1..Len(text) : text[j] = "\n"}}
LineEnd(text, s) ==
  LET nl == {j \in s..Len(text) : text[j] = "\n"}
  IN  IF nl = {} THEN Len(text) ELSE (CHOOSE j \in nl : \A k \in nl : j <= k) - 1
\* the places of a line [s, e] that are not white space
Inked(text, s) == {j \in s..LineEnd(text, s) : text[j] # " "}
First(S) == CHOOSE j \in S : \A k \in S : j <= k
Last(S) == CHOOSE j \in S : \A k \in S : j >= k
\* the lines that are not blank and not a comment
Wanted(text) ==
  {s \in LineStarts(text) : Inked(text, s) # {} /\ text[First(Inked(text, s))] # "#"}

C14_VerifyClientErrorThrowsAtOnce ==
  (Answered({"verifyUser"}) /\ ClientError(ev.status))
    => ev.act = "throw" /\ ev.delay = 0 /\ LastTask.pc # "sleep"

\* C14 amended: verifyUser does not classify its failures: a 4xx (401
\* included) is retried after the backoff like any other failure while
\* retryCount < 5, and throws, with no further attempt, at retryCount 5.
C14_VerifyRetriesEveryFailure ==
  (Answered({"verifyUser"}) /\ (ClientError(ev.status) \/ Unauthorized(ev.status)))
    => /\ ev.retryCount < MAX_RETRIES
            => /\ ev.act = "retry" /\ ev.fin = "none" /\ ev.sent = "none"
               /\ LastTask.pc = "sleep" /\ LastTask.op = "verifyUser"
               /\ LastTask.retryCount = ev.retryCount
               /\ ev.delay > 0
       /\ ev.retryCount = MAX_RETRIES
            => /\ ev.act = "throw" /\ ev.sent = "none" /\ ~Running(LastTask)
               /\ ev.fin \in {"authFailed", "routineFailed"}

\* the first attempt of a verifyUser call is answered 403 and is retried
C14_Witness ==
  /\ Answered({"verifyUser"}) /\ ClientError(ev.status)
  /\ ev.retryCount = 0 /\ ev.attempts = 1
  /\ ev.act = "retry" /\ LastTask.pc = "sleep"

\* C15: the wait before the retry that follows failed attempt k is
\* 2000 * 2^k ms; a retry raises the counter by exactly 1; every new logical
\* call, the re-invocation after a 401 refresh included, starts at k = 0.
C15_BackoffSchedule ==
  /\ ev.act = "retry"
       => /\ LastTask.pc = "sleep"
          /\ LastTask.delay = 2000 * (2 ^ LastTask.retryCount)
          /\ ev.kind # "start" => ev.delay = LastTask.delay
          /\ ev.kind = "response" => LastTask.retryCount = ev.retryCount
  /\ \A b \in Bots, slot \in Slots :
       tasks[b][slot].pc = "sleep"
         => tasks[b][slot].delay = 2000 * (2 ^ tasks[b][slot].retryCount)
  /\ ev.kind = "wake" /\ Running(LastTask)
       => LastTask.op = ev.op /\ LastTask.retryCount = ev.retryCount + 1
  /\ ev.kind \in {"start", "tick", "response"} /\ ev.sent # "none"
       => LastTask.op = ev.sent /\ LastTask.retryCount = 0
  /\ Answered({"verifyUser"}) /\ Success(ev.status) /\ ev.refreshes >= 1
       => ev.sent \in Ops /\ LastTask.retryCount = 0

\* the fifth retry of a call is scheduled 32000 ms after its fifth failure
C15_Witness ==
  /\ Answered({"getNodeStats"}) /\ ev.act = "retry"
  /\ ev.retryCount = MAX_RETRIES - 1
  /\ ev.delay = 32000

InStartup(b) == Running(tasks[b][0])
StartEnded(b) == phase[b] \in {"running", "failed"} /\ ~Running(tasks[b][0])

\* C17: the fleet starts one bot at a time: start() of a bot is invoked only
\* when start() of every earlier bot has ended, so no two bots are in their
\* startup at once; the only work of an earlier bot that can go on beside a
\* startup is that of its interval timer.
C17_SequentialStartup ==
  /\ Cardinality({b \in Bots : InStartup(b)}) <= 1
  /\ \A b \in Bots :
       /\ InStartup(b) => b = cur /\ mainPc = "await"
       /\ phase[b] # "created" => \A a \in 1..(b - 1) : StartEnded(a)
       /\ phase[b] = "created" => ~InStartup(b) /\ ~timer[b] /\ bearerToken[b] = Null
       /\ timer[b] => StartEnded(b)
  /\ ev.kind = "start"
       => /\ \A a \in 1..(ev.bot - 1) : StartEnded(a)
          /\ \A a \in Bots : a > ev.bot => phase[a] = "created"
          /\ ev.delay = (ev.bot - 1) * 5000

\* the second bot is in its startup while the interval of the first is armed
C17_Witness ==
  /\ InStartup(2) /\ tasks[2][0].op = "checkIn"
  /\ StartEnded(1) /\ timer[1]
  /\ phase[3] = "created"

\* ---------------------------------------------------------------- C18
\* C18: the bearer token of a bot is never cleared: once set it is never null
\* again, and it changes only in the step that handles a successful
\* /user/verify response of that bot; a failed verifyUser attempt and every
\* onboard, check-in and stats step leave it as it was.
C18_TokenNeverCleared ==
  [][\A b \in Bots :
       /\ bearerToken[b] # Null => bearerToken'[b] # Null
       /\ bearerToken'[b] # bearerToken[b]
            => /\ ev'.bot = b /\ ev'.kind = "response" /\ ev'.op = "verifyUser"
               /\ Success(ev'.status)
               /\ bearerToken'[b] \in Tokens
       /\ (ev'.bot # b \/ ev'.kind # "response" \/ ev'.op \in Ops \/ ~Success(ev'.status))
            => bearerToken'[b] = bearerToken[b]]_vars

\* the second bot has refreshed its token; the first keeps its own
C18_Witness ==
  /\ Answered({"verifyUser"}) /\ Success(ev.status) /\ ev.refreshes >= 1
  /\ ev.bot = 2
  /\ bearerToken[1] = "tokenA" /\ bearerToken[2] = "tokenB"

\* ---------------------------------------------------------------- C19, C20
\* C19: verifyUser never refreshes the token on its own behalf: whatever the
\* answers to /user/verify, a 401 included, a failed attempt is followed by
\* the backoff or by the throw, one call makes at most MAX_RETRIES + 1 = 6
\* HTTP attempts, and verifyUser itself sends no onboard, check-in or stats
\* request.
C19_VerifyNeverRefreshes ==
  /\ \A b \in Bots, slot \in Slots :
       tasks[b][slot].op = "verifyUser" => tasks[b][slot].attempts <= MAX_RETRIES + 1
  /\ Answered({"verifyUser"})
       => /\ ev.act \in {"return", "retry", "throw"}
          /\ ev.attempts = ev.retryCount + 1
          /\ ev.attempts <= MAX_RETRIES + 1
  /\ Answered({"verifyUser"}) /\ ~Success(ev.status)
       => /\ ev.sent = "none"
          /\ ev.act = "throw" <=> ev.attempts = MAX_RETRIES + 1
          /\ Running(LastTask)
               => /\ LastTask.op = "verifyUser" /\ LastTask.pc = "sleep"
                  /\ LastTask.refreshes = ev.refreshes
                  /\ LastTask.attempts = ev.attempts
  /\ ev.kind = "wake" /\ ev.op = "verifyUser"
       => /\ ev.sent \in {"verifyUser", "none"}
          /\ Running(LastTask) => LastTask.op = "verifyUser"

\* a verifyUser call started by a 401 is itself answered 401 six times and throws
C19_Witness ==
  /\ Answered({"verifyUser"}) /\ Unauthorized(ev.status)
  /\ ev.refreshes = 1 /\ ev.attempts = MAX_RETRIES + 1 /\ ev.act = "throw"

\* C20: when the verifyUser call started by a 401 on onboardNode, checkIn or
\* getNodeStats throws, the operation is neither invoked again nor retried
\* after a backoff: the failure reaches performRoutineTasks, and the routine
\* ends at the step of that operation.
C20_RefreshFailurePropagates ==
  (Answered({"verifyUser"}) /\ ev.refreshes >= 1 /\ ev.act = "throw")
    => /\ ev.sent = "none" /\ ev.delay = 0
       /\ ev.fin = "routineFailed"
       /\ ev.failed \in {"onboard", "checkIn", "stats"}
       /\ ~Running(LastTask)

\* the refresh started by a 401 on onboardNode fails for good: no check-in
C20_Witness ==
  /\ Answered({"verifyUser"}) /\ ev.refreshes >= 1 /\ ev.act = "throw"
  /\ ev.status = 500 /\ ev.failed = "onboard" /\ ev.fin = "routineFailed"

============================================================================
